---- MODULE Spec2Model ----
(***************************************************************************)
(* kill-orphan: a supervisor that spawns one command and kills the whole   *)
(* process tree of that command when it catches SIGTERM/SIGINT/SIGQUIT or  *)
(* when its own parent process disappears (src/cli/src/main.rs).           *)
(*                                                                         *)
(* The supervisor is one thread; pc is its position in main.  The          *)
(* environment (signal delivery, the OS process table, the managed child)  *)
(* moves between any two of its steps.  Time is counted in milliseconds    *)
(* and passes in sleep().  Option<T> values are sequences of length <= 1.  *)
(***************************************************************************)
EXTENDS Integers, Sequences, FiniteSets, TLC

VARIABLES
    pc,                         \* position of the supervisor in main
    ret,                        \* call site kill_all_children returns to
    catched_termination_signal, \* the AtomicBool the signal handlers set
    killed_subprocess_instant,  \* Option<Instant>
    now,                        \* the monotonic clock, in ms
    procs,                      \* the OS process table: live pid -> Option<ppid>
    snapshot,                   \* sys.processes() inside kill_all_children
    sub_pid,                    \* subprocess.id()
    children,                   \* kill_all_children's HashSet<Pid>
    child_status,               \* what try_wait would report: Option<ExitStatus>
    exit_code,                  \* the supervisor's own exit code: Option<i32>
    log,                        \* the debug!/error lines written so far
    latched_at,                 \* when the flag was set, until a cascade returns
    last_pid,                   \* the pid the OS handed out last
    args                        \* env::args().len()

vars == << pc, ret, catched_termination_signal, killed_subprocess_instant, now,
           procs, snapshot, sub_pid, children, child_status, exit_code, log,
           latched_at, last_pid, args >>

-----------------------------------------------------------------------------
(* Bounds of the model *)

\* number of pids the managed child's tree may use besides the child itself
MaxDesc == 2
\* loop iterations the supervisor may sleep through while still Running
MaxRunTicks == 1
\* largest exit code the managed child reports
MaxCode == 2

-----------------------------------------------------------------------------
(* Program constants and pids *)

\* sleep(Duration::from_millis(100))
PollMs == 100
\* instant.elapsed().as_secs() > 5
GraceSecs == 5
\* the pid orphans are re-parented to; its own parent() is None
InitPid == 1
\* me.parent()
MyParentPid == 2
\* process::id()
MyPid == 3
\* subprocess.id()
SubPid == 4

\* the exit code of a process whose main returns Err
ErrCode == 1
\* the exit code of a process whose main thread panics (expect on None)
PanicCode == 101
\* args.len(): the program name alone, or the program name and a command
ArgCounts == {1, 2}

DescPids == (SubPid + 1)..(SubPid + MaxDesc)
Pids == {InitPid, MyParentPid, MyPid, SubPid} \cup DescPids

None == << >>
Some(x) == << x >>

\* Duration::as_secs: whole seconds, the fraction dropped
as_secs(ms) == ms \div 1000

\* Instant::elapsed of an instant taken at clock value t
elapsed(t) == now - t

\* mutants of unwrap_or: the fallback always, and a fallback of 0
unwrap_or_always_default(opt, default) == default
unwrap_or_zero(opt, default) == IF opt = None THEN 0 ELSE opt[1]

\* Option::unwrap_or
unwrap_or(opt, default) == IF opt = None THEN default ELSE opt[1]

\* the three signal_hook::flag::register calls: the signals that set the flag
TermSignals == {"SIGTERM", "SIGINT", "SIGQUIT"}
\* mutant of Registered: no handler for SIGQUIT
Registered_NoQuit(sig) == sig \in {"SIGTERM", "SIGINT"}
Registered(sig) == sig \in TermSignals

\* ExitStatus values: code() is Some(n), or None when a signal ended the child
ExitStatuses == [code : {Some(n) : n \in 0..MaxCode} \cup {None}]
Signaled == [code |-> None]

\* the lines the supervisor writes (the pid they carry is kept beside them)
MsgSignal == "Received termination signal, killing process"
MsgParent == "Parent process doesn't exist anymore, killing process"
MsgKillMain == "Killing main child process"
MsgKillDesc == "Killing descendant of child"
MsgTimeout == "Process didn't exit after 5 seconds, giving up"
MsgExited == "Process exited with status"
MsgError == "Error"
MsgUsage == "Usage: kill-orphan <command> [<args>...]"
MsgLaunch == "Launching command"
MsgSpawned == "Spawned process with pid"
MsgNoInfo == "Couldn't find my process information"
MsgNoParent == "Couldn't find my parent PID"

Line(m, p) == [msg |-> m, pid |-> p]
LastMsg == IF log = << >> THEN "" ELSE log[Len(log)].msg
Logged(m) == \E i \in 1..Len(log) : log[i].msg = m
Count(m) == Cardinality({i \in 1..Len(log) : log[i].msg = m})

-----------------------------------------------------------------------------
(* The process table *)

\* the table after pid p is gone: its children are re-parented to init
Remove(tab, p) ==
    [q \in DOMAIN tab \ {p} |-> IF tab[q] = Some(p) THEN Some(InitPid) ELSE tab[q]]

\* SIGKILL sent to pid p: a live process dies
Killed(tab, p) == IF p \in DOMAIN tab THEN Remove(tab, p) ELSE tab

-----------------------------------------------------------------------------
(* Descendant resolution: the loop of kill_all_children *)

\* mutant of ScanPass: only the direct children of the root are taken
RECURSIVE ScanPass_DirectOnly(_, _, _, _, _)
ScanPass_DirectOnly(snap, order, i, root, found) ==
    IF i > Len(order) THEN found
    ELSE LET pid == order[i]
             parent == snap[pid]
             hit == parent # None /\ pid \notin found /\ parent[1] = root
         IN ScanPass_DirectOnly(snap, order, i + 1, root,
                                IF hit THEN found \cup {pid} ELSE found)

\* one `for (pid, p) in sys.processes().iter()` pass from position i of the
\* iteration order; an insertion is seen by the rest of the same pass
RECURSIVE ScanPass(_, _, _, _, _)
ScanPass(snap, order, i, root, found) ==
    IF i > Len(order) THEN found
    ELSE LET pid == order[i]
             parent == snap[pid]
             hit == /\ parent # None
                    /\ pid \notin found
                    /\ (parent[1] = root \/ parent[1] \in found)
         IN ScanPass(snap, order, i + 1, root, IF hit THEN found \cup {pid} ELSE found)

\* loop { ... if !did_find_new_descendant { break; } }
RECURSIVE FixedPoint(_, _, _, _)
FixedPoint(snap, order, root, found) ==
    LET next == ScanPass(snap, order, 1, root, found)
    IN IF next = found THEN found ELSE FixedPoint(snap, order, root, next)

\* the iteration orders a HashMap over these keys can have
RECURSIVE Orders(_)
Orders(S) ==
    IF S = {} THEN {<< >>}
    ELSE UNION {{<<p>> \o o : o \in Orders(S \ {p})} : p \in S}

-----------------------------------------------------------------------------
(* Initial state: the supervisor's process has started and main is about to  *)
(* look at its arguments; the command is not spawned yet.                    *)

\* Every read of sys's process entries (the resolver loop, sys.process(pid))
\* follows the full refresh at the head of kill_all_children, so the model
\* holds the entries only while the closure runs.
NoSnapshot == << >>

\* the process table once the command is spawned
StartTable ==
    (InitPid :> None) @@ (MyParentPid :> Some(InitPid))
        @@ (MyPid :> Some(MyParentPid)) @@ (SubPid :> Some(MyPid))

\* the process table when main starts
BootTable == [p \in DOMAIN StartTable \ {SubPid} |-> StartTable[p]]

Init ==
    /\ pc = "args"
    /\ ret = "none"
    /\ catched_termination_signal = FALSE
    /\ killed_subprocess_instant = None
    /\ now = 0
    /\ procs = BootTable
    /\ snapshot = NoSnapshot
    /\ sub_pid = SubPid
    /\ children = {}
    /\ child_status = None
    /\ exit_code = None
    /\ log = << >>
    /\ latched_at = None
    /\ last_pid = SubPid
    /\ args \in ArgCounts

Supervising == pc \notin {"exited", "r_scan", "r_done"}

-----------------------------------------------------------------------------
(* The environment *)

\* the positions of main at which the register call for sig has not returned
BeforeInstall(sig) ==
    CASE sig = "SIGTERM" -> {"args", "reg_term"}
      [] sig = "SIGINT" -> {"args", "reg_term", "reg_int"}
      [] sig = "SIGQUIT" -> {"args", "reg_term", "reg_int", "reg_quit"}

\* mutant of Installed: SIGQUIT is registered after the command is spawned
Installed_QuitAfterSpawn(sig) ==
    pc \notin (BeforeInstall(sig)
                  \cup (IF sig = "SIGQUIT" THEN {"spawn", "whoami"} ELSE {}))

\* the handler of sig is in place: its register call has returned Ok
Installed(sig) == pc \notin BeforeInstall(sig)

\* the positions of main's loop and of kill_all_children
LoopPcs == {"match", "chk_signal", "chk_parent", "poll", "sleep",
            "kac_refresh", "kac_root", "kac_desc"}

\* a SIGTERM, SIGINT or SIGQUIT is delivered: the registered handler stores
\* true and nothing else; without a handler the signal ends the supervisor
SignalDelivered(sig) ==
    /\ Supervising
    /\ catched_termination_signal' =
          (catched_termination_signal \/ (Registered(sig) /\ Installed(sig)))
    /\ pc' = IF Registered(sig) /\ Installed(sig) THEN pc ELSE "exited"
    /\ latched_at' = IF /\ ~catched_termination_signal
                        /\ catched_termination_signal'
                        /\ pc \in {"match", "chk_signal", "chk_parent", "poll", "sleep"}
                        /\ killed_subprocess_instant = None
                     THEN Some(now) ELSE latched_at
    /\ UNCHANGED << ret, killed_subprocess_instant, now, procs, snapshot,
                    sub_pid, args, children, child_status, exit_code, log, last_pid >>

\* the supervisor's parent process goes away; followed from the point at
\* which main has read my_parent_pid
ParentDies ==
    /\ pc \in LoopPcs
    /\ MyParentPid \in DOMAIN procs
    /\ procs' = Remove(procs, MyParentPid)
    /\ UNCHANGED << pc, ret, catched_termination_signal, killed_subprocess_instant,
                    now, snapshot, sub_pid, args, children, child_status, exit_code, log,
                    latched_at, last_pid >>

\* the managed child ends by itself (exit code) or by somebody's signal
ChildExits(st) ==
    /\ Supervising
    /\ SubPid \in DOMAIN procs
    /\ child_status = None
    /\ child_status' = Some(st)
    /\ procs' = Remove(procs, SubPid)
    /\ UNCHANGED << pc, ret, catched_termination_signal, killed_subprocess_instant,
                    now, snapshot, sub_pid, args, children, exit_code, log, latched_at, last_pid >>

\* the processes that may fork into the tree: the child and what it started
TreePids == {SubPid} \cup DescPids

\* Forks are followed while a cascade can still take a snapshot: later ones
\* are seen by no step of the supervisor.
TreeWatched ==
    /\ Supervising
    /\ \/ killed_subprocess_instant = None
       \/ pc \in {"chk_parent", "kac_refresh", "kac_root", "kac_desc"}

\* the table without the processes the child started
Unfollowed(tab) == [p \in DOMAIN tab \ DescPids |-> tab[p]]

\* a process of the child's tree forks: the new process gets the next pid
Spawn(parent) ==
    /\ TreeWatched
    /\ parent \in TreePids \cap DOMAIN procs
    /\ last_pid + 1 \in DescPids
    /\ last_pid' = last_pid + 1
    /\ procs' = (last_pid' :> Some(parent)) @@ procs
    /\ UNCHANGED << pc, ret, catched_termination_signal, killed_subprocess_instant,
                    now, snapshot, sub_pid, args, children, child_status, exit_code, log,
                    latched_at >>

\* a process the child started ends by itself
ProcExits(pid) ==
    /\ Supervising
    /\ pid \in DescPids \cap DOMAIN procs
    /\ procs' = Remove(procs, pid)
    /\ UNCHANGED << pc, ret, catched_termination_signal, killed_subprocess_instant,
                    now, snapshot, sub_pid, args, children, child_status, exit_code, log,
                    latched_at, last_pid, args >>

-----------------------------------------------------------------------------
(* The supervisor: main's loop *)

\* process::exit(code), or main returning Err
Exit(code, lines) ==
    /\ pc' = "exited"
    /\ exit_code' = Some(code)
    /\ log' = log \o lines

\* a call of kill_all_children from the call site that continues at `site`
Call(site, line) ==
    /\ pc' = "kac_refresh"
    /\ ret' = site
    /\ log' = Append(log, line)

\* mutant of CheckArgs: the comparison is off by one
CheckArgs_OffByOne ==
    /\ pc = "args"
    /\ IF args < 1
       THEN Exit(1, << Line(MsgUsage, 0) >>)
       ELSE /\ pc' = "reg_term"
            /\ UNCHANGED << exit_code, log >>
    /\ UNCHANGED << ret, catched_termination_signal, killed_subprocess_instant, now,
                    procs, snapshot, sub_pid, args, children, child_status,
                    latched_at, last_pid >>

\* if args.len() < 2 { eprintln!("Usage: ..."); exit(1); }
CheckArgs ==
    /\ pc = "args"
    /\ IF args < 2
       THEN Exit(1, << Line(MsgUsage, 0) >>)
       ELSE /\ pc' = "reg_term"
            /\ UNCHANGED << exit_code, log >>
    /\ UNCHANGED << ret, catched_termination_signal, killed_subprocess_instant, now,
                    procs, snapshot, sub_pid, args, children, child_status,
                    latched_at, last_pid >>

\* signal_hook::flag::register(..)?: TRUE for Ok, FALSE for Err
RegisterResults == BOOLEAN

\* one signal_hook::flag::register(SIGxxx, flag)? at position `at`
Register(at, next) ==
    /\ pc = at
    /\ \E ok \in RegisterResults :
          IF ok
          THEN /\ pc' = next
               /\ UNCHANGED << exit_code, log >>
          ELSE Exit(ErrCode, << Line(MsgError, 0) >>)
    /\ UNCHANGED << ret, catched_termination_signal, killed_subprocess_instant, now,
                    procs, snapshot, sub_pid, args, children, child_status,
                    latched_at, last_pid >>

\* cmd.spawn()?: TRUE for Ok, FALSE for Err
SpawnResults == BOOLEAN

\* debug!("Launching command"); let mut subprocess = cmd.spawn()?;
\* debug!("Spawned process with pid")
SpawnCommand ==
    /\ pc = "spawn"
    /\ \E ok \in SpawnResults :
          IF ok
          THEN /\ pc' = "whoami"
               /\ procs' = (SubPid :> Some(MyPid)) @@ procs
               /\ log' = log \o << Line(MsgLaunch, 0), Line(MsgSpawned, SubPid) >>
               /\ UNCHANGED exit_code
          ELSE /\ Exit(ErrCode, << Line(MsgLaunch, 0), Line(MsgError, 0) >>)
               /\ UNCHANGED procs
    /\ UNCHANGED << ret, catched_termination_signal, killed_subprocess_instant, now,
                    snapshot, sub_pid, args, children, child_status,
                    latched_at, last_pid >>

\* what sys.process(my_pid) may give: no entry, an entry without a parent,
\* or the entry of the table
MyInfos == {None, Some(None), Some(procs[MyPid])}

\* sys.refresh_processes(); sys.process(my_pid).expect(..); me.parent().expect(..)
WhoAmI ==
    /\ pc = "whoami"
    /\ \E me \in MyInfos :
          IF me = None
          THEN Exit(PanicCode, << Line(MsgNoInfo, 0) >>)
          ELSE IF me[1] = None
          THEN Exit(PanicCode, << Line(MsgNoParent, 0) >>)
          ELSE /\ pc' = "match"
               /\ UNCHANGED << exit_code, log >>
    /\ UNCHANGED << ret, catched_termination_signal, killed_subprocess_instant, now,
                    procs, snapshot, sub_pid, args, children, child_status,
                    latched_at, last_pid >>

\* if instant.elapsed().as_secs() > 5
GraceOver(instant) == as_secs(elapsed(instant)) > GraceSecs

\* mutant of Match: the None arm is taken in every iteration
Match_AlwaysNoneArm ==
    /\ pc = "match"
    /\ pc' = "chk_signal"
    /\ UNCHANGED << ret, catched_termination_signal, killed_subprocess_instant, now,
                    procs, snapshot, sub_pid, args, children, child_status, exit_code,
                    log, latched_at, last_pid >>

\* mutant of Match: the match takes the instant out of the option
Match_TakesInstant ==
    /\ pc = "match"
    /\ killed_subprocess_instant' = None
    /\ IF killed_subprocess_instant = None
       THEN /\ pc' = "chk_signal"
            /\ UNCHANGED << exit_code, log >>
       ELSE IF GraceOver(killed_subprocess_instant[1])
       THEN Exit(1, << Line(MsgTimeout, 0) >>)
       ELSE /\ pc' = "poll"
            /\ UNCHANGED << exit_code, log >>
    /\ UNCHANGED << ret, catched_termination_signal, now,
                    procs, snapshot, sub_pid, args, children, child_status, latched_at, last_pid >>

\* match killed_subprocess_instant { Some(instant) => ..., None => ... }
Match ==
    /\ pc = "match"
    /\ IF killed_subprocess_instant = None
       THEN /\ pc' = "chk_signal"
            /\ UNCHANGED << exit_code, log >>
       ELSE IF GraceOver(killed_subprocess_instant[1])
       THEN Exit(1, << Line(MsgTimeout, 0) >>)
       ELSE /\ pc' = "poll"
            /\ UNCHANGED << exit_code, log >>
    /\ UNCHANGED << ret, catched_termination_signal, killed_subprocess_instant, now,
                    procs, snapshot, sub_pid, args, children, child_status, latched_at, last_pid >>

\* mutant of CheckSignal: the flag is read with swap(false) instead of load
CheckSignal_Swaps ==
    /\ pc = "chk_signal"
    /\ catched_termination_signal' = FALSE
    /\ IF catched_termination_signal
       THEN Call("chk_parent", Line(MsgSignal, 0))
       ELSE /\ pc' = "chk_parent"
            /\ UNCHANGED << ret, log >>
    /\ UNCHANGED << killed_subprocess_instant, now,
                    procs, snapshot, sub_pid, args, children, child_status, exit_code,
                    latched_at, last_pid >>

\* if catched_termination_signal.load(Ordering::Relaxed) { kill_all_children(..)? }
CheckSignal ==
    /\ pc = "chk_signal"
    /\ IF catched_termination_signal
       THEN Call("chk_parent", Line(MsgSignal, 0))
       ELSE /\ pc' = "chk_parent"
            /\ UNCHANGED << ret, log >>
    /\ UNCHANGED << catched_termination_signal, killed_subprocess_instant, now,
                    procs, snapshot, sub_pid, args, children, child_status, exit_code,
                    latched_at, last_pid >>

\* mutant of refresh_process: answered from the entries read at startup
refresh_process_cached(pid) == pid \in DOMAIN StartTable

\* sys.refresh_process(pid): re-reads one pid, false when it is gone
refresh_process(pid) == pid \in DOMAIN procs

\* if !sys.refresh_process(my_parent_pid) { kill_all_children(..)? }
CheckParent ==
    /\ pc = "chk_parent"
    /\ IF ~refresh_process(MyParentPid)
       THEN Call("poll", Line(MsgParent, 0))
       ELSE /\ pc' = "poll"
            /\ UNCHANGED << ret, log >>
    /\ UNCHANGED << catched_termination_signal, killed_subprocess_instant, now,
                    procs, snapshot, sub_pid, args, children, child_status, exit_code,
                    latched_at, last_pid >>

\* mutant of Descendants: a single pass, no repetition until nothing is added
Descendants_OnePass(snap, order, root) == ScanPass(snap, order, 1, root, {})

\* the descendant set the loop computes from a snapshot, for one iteration order
Descendants(snap, order, root) == FixedPoint(snap, order, root, {})

\* kill_all_children: refresh_processes_specifics, then the descendant loop
Resolve ==
    /\ pc = "kac_refresh"
    /\ snapshot' = procs
    /\ \E order \in Orders(DOMAIN procs) :
           children' = Descendants(procs, order, sub_pid)
    /\ pc' = "kac_root"
    /\ UNCHANGED << ret, catched_termination_signal, killed_subprocess_instant, now,
                    procs, sub_pid, args, child_status, exit_code, log, latched_at, last_pid >>

\* subprocess.kill(): TRUE for Ok, FALSE for Err; the OS decides
KillResults == BOOLEAN

\* mutant of KillRoot: the timestamp is written before the kill of the root
KillRoot_StampsFirst ==
    /\ pc = "kac_root"
    /\ killed_subprocess_instant' = Some(now)
    /\ \E ok \in KillResults :
          IF ok
          THEN /\ pc' = "kac_desc"
               /\ log' = log \o << Line(MsgKillMain, sub_pid) >>
               /\ \E dies \in BOOLEAN :
                     IF dies /\ child_status = None
                     THEN /\ child_status' = Some(Signaled)
                          /\ procs' = Remove(procs, sub_pid)
                     ELSE UNCHANGED << child_status, procs >>
               /\ UNCHANGED << exit_code, children, snapshot >>
          ELSE /\ Exit(1, << Line(MsgKillMain, sub_pid),
                             Line(MsgError, 0) >>)
               /\ children' = {}
               /\ snapshot' = NoSnapshot
               /\ UNCHANGED << child_status, procs >>
    /\ UNCHANGED << ret, catched_termination_signal, now,
                    sub_pid, args, latched_at, last_pid >>

\* debug!("Killing main child process"); subprocess.kill()?
KillRoot ==
    /\ pc = "kac_root"
    /\ \E ok \in KillResults :
          IF ok
          THEN \* SIGKILL is sent: a running child dies of it now, or not yet
               /\ pc' = "kac_desc"
               /\ log' = log \o << Line(MsgKillMain, sub_pid) >>
               /\ \E dies \in BOOLEAN :
                     IF dies /\ child_status = None
                     THEN /\ child_status' = Some(Signaled)
                          /\ procs' = Remove(procs, sub_pid)
                     ELSE UNCHANGED << child_status, procs >>
               /\ UNCHANGED << exit_code, children, snapshot >>
          ELSE \* `?` leaves the closure and then main with the error
               /\ Exit(1, << Line(MsgKillMain, sub_pid),
                             Line(MsgError, 0) >>)
               /\ children' = {}
               /\ snapshot' = NoSnapshot
               /\ UNCHANGED << child_status, procs >>
    /\ UNCHANGED << ret, catched_termination_signal, killed_subprocess_instant, now,
                    sub_pid, args, latched_at, last_pid >>

\* mutant of KillDescendant: a failed kill is propagated with `?`
KillDescendant_Propagates(pid) ==
    /\ pc = "kac_desc"
    /\ pid \in children
    /\ \E killed \in BOOLEAN :
          IF killed /\ pid \in DOMAIN snapshot
          THEN /\ procs' = Killed(procs, pid)
               /\ children' = children \ {pid}
               /\ log' = Append(log, Line(MsgKillDesc, pid))
               /\ UNCHANGED << pc, exit_code >>
          ELSE /\ Exit(1, << Line(MsgKillDesc, pid), Line(MsgError, 0) >>)
               /\ children' = {}
               /\ UNCHANGED procs
    /\ UNCHANGED << ret, catched_termination_signal, killed_subprocess_instant,
                    now, snapshot, sub_pid, args, child_status, latched_at, last_pid >>

\* for pid in children { if let Some(process) = sys.process(pid) { let _ = process.kill(); } }
KillDescendant(pid) ==
    /\ pc = "kac_desc"
    /\ pid \in children
    /\ children' = children \ {pid}
    /\ log' = Append(log, Line(MsgKillDesc, pid))
    /\ \E killed \in BOOLEAN :
          IF killed /\ pid \in DOMAIN snapshot
          THEN procs' = Killed(procs, pid)
          ELSE UNCHANGED procs
    /\ UNCHANGED << pc, ret, catched_termination_signal, killed_subprocess_instant,
                    now, snapshot, sub_pid, args, child_status, exit_code, latched_at, last_pid >>

\* mutant of Return: the closure returns before the loop over the descendants
\* is through
Return_Early ==
    /\ pc = "kac_desc"
    /\ killed_subprocess_instant' = Some(now)
    /\ pc' = ret
    /\ ret' = "none"
    /\ snapshot' = NoSnapshot
    /\ latched_at' = None
    /\ UNCHANGED << catched_termination_signal, now, procs, sub_pid, args, children,
                    child_status, exit_code, log, last_pid >>

\* *killed_subprocess_instant = Instant::now().into(); Ok(())
Return ==
    /\ pc = "kac_desc"
    /\ children = {}
    /\ killed_subprocess_instant' = Some(now)
    /\ pc' = ret
    /\ ret' = "none"
    /\ snapshot' = NoSnapshot
    /\ latched_at' = None
    /\ UNCHANGED << catched_termination_signal, now, procs, sub_pid, args, children,
                    child_status, exit_code, log, last_pid >>

\* mutant of Poll: the status is awaited with wait() instead of try_wait()
Poll_Waits ==
    /\ pc = "poll"
    /\ child_status # None
    /\ Exit(unwrap_or(child_status[1].code, 1),
            << Line(MsgExited, 0) >>)
    /\ UNCHANGED << ret, catched_termination_signal, killed_subprocess_instant, now,
                    procs, snapshot, sub_pid, args, children, child_status, latched_at, last_pid >>

\* if let Ok(Some(status)) = subprocess.try_wait() { exit(status.code().unwrap_or(1)) }
Poll ==
    /\ pc = "poll"
    /\ IF child_status # None
       THEN Exit(unwrap_or(child_status[1].code, 1),
                 << Line(MsgExited, 0) >>)
       ELSE /\ pc' = "sleep"
            /\ UNCHANGED << exit_code, log >>
    /\ UNCHANGED << ret, catched_termination_signal, killed_subprocess_instant, now,
                    procs, snapshot, sub_pid, args, children, child_status, latched_at, last_pid >>

\* sleep(Duration::from_millis(100)).  The clock is followed for MaxRunTicks
\* iterations while Running.  Past a cascade main reads the process table no
\* more, and the processes the child started are followed no further.
Sleep ==
    /\ pc = "sleep"
    /\ killed_subprocess_instant = None => now < MaxRunTicks * PollMs
    /\ now' = now + PollMs
    /\ pc' = "match"
    /\ procs' = IF killed_subprocess_instant # None THEN Unfollowed(procs) ELSE procs
    /\ UNCHANGED << ret, catched_termination_signal, killed_subprocess_instant,
                    snapshot, sub_pid, args, children, child_status, exit_code, log,
                    latched_at, last_pid >>

Next ==
    \/ \E sig \in TermSignals : SignalDelivered(sig)
    \/ ParentDies
    \/ \E st \in ExitStatuses : ChildExits(st)
    \/ \E parent \in TreePids : Spawn(parent)
    \/ \E pid \in DescPids : ProcExits(pid)
    \/ CheckArgs
    \/ Register("reg_term", "reg_int")
    \/ Register("reg_int", "reg_quit")
    \/ Register("reg_quit", "spawn")
    \/ SpawnCommand
    \/ WhoAmI
    \/ Match
    \/ CheckSignal
    \/ CheckParent
    \/ Resolve
    \/ KillRoot
    \/ \E pid \in Pids : KillDescendant(pid)
    \/ Return
    \/ Poll
    \/ Sleep

Spec == Init /\ [][Next]_vars

\* the steps of main's own thread
MainStep ==
    \/ CheckArgs
    \/ Register("reg_term", "reg_int")
    \/ Register("reg_int", "reg_quit")
    \/ Register("reg_quit", "spawn")
    \/ SpawnCommand
    \/ WhoAmI
    \/ Match
    \/ CheckSignal
    \/ CheckParent
    \/ Resolve
    \/ KillRoot
    \/ \E pid \in Pids : KillDescendant(pid)
    \/ Return
    \/ Poll
    \/ Sleep

\* main's thread keeps running: no call of the loop blocks, sleep() returns
SpecLive == Spec /\ WF_vars(MainStep)

-----------------------------------------------------------------------------
(* The descendant resolver alone, on every snapshot over a few pids *)

\* the pids a snapshot of the resolver's specification may hold
ResolvePids == {SubPid} \cup DescPids

\* a parent() is None, the supervisor's pid or one of the snapshot's pids
ParentOptions == {None} \cup {Some(p) : p \in ResolvePids \cup {MyPid}}

Snapshots == UNION {[S -> ParentOptions] : S \in SUBSET ResolvePids}

InitResolve ==
    /\ pc = "r_scan"
    /\ ret = "none"
    /\ catched_termination_signal = FALSE
    /\ killed_subprocess_instant = None
    /\ now = 0
    /\ procs = StartTable
    /\ snapshot \in Snapshots
    /\ sub_pid \in ResolvePids
    /\ children = {}
    /\ child_status = None
    /\ exit_code = None
    /\ log = << >>
    /\ latched_at = None
    /\ last_pid = SubPid
    /\ args = 2

\* the descendant loop of kill_all_children, run on the snapshot
ResolveSnapshot ==
    /\ pc = "r_scan"
    /\ \E order \in Orders(DOMAIN snapshot) :
           children' = Descendants(snapshot, order, sub_pid)
    /\ pc' = "r_done"
    /\ UNCHANGED << ret, catched_termination_signal, killed_subprocess_instant, now,
                    procs, snapshot, sub_pid, args, child_status, exit_code, log,
                    latched_at, last_pid >>

NextResolve == ResolveSnapshot

SpecResolve == InitResolve /\ [][NextResolve]_vars

-----------------------------------------------------------------------------
(* Properties *)

\* the cascades executed so far: one "Killing main child process" line each
Cascades == Count(MsgKillMain)

Running == killed_subprocess_instant = None
Terminating == killed_subprocess_instant # None
ParentAlive == MyParentPid \in DOMAIN procs

\* pids whose chain of parent links in the table leads up to root
RECURSIVE Climbs(_, _, _, _)
Climbs(tab, p, root, fuel) ==
    /\ fuel > 0
    /\ p \in DOMAIN tab
    /\ tab[p] # None
    /\ \/ tab[p][1] = root
       \/ Climbs(tab, tab[p][1], root, fuel - 1)

Reach(tab, root) == {p \in DOMAIN tab : Climbs(tab, p, root, Cardinality(DOMAIN tab))}

\* C1: whatever signals arrive and whenever the parent disappears, the kill
\* cascade is executed at most once in an execution.
C1_AtMostOneCascade == Cascades <= 1

\* C3: a timeout exit happens no earlier than 5 s and no later than 5 s plus
\* one polling interval after the instant recorded by the cascade.
C3_TimeoutWindow ==
    (pc = "exited" /\ LastMsg = MsgTimeout) =>
        LET waited == now - killed_subprocess_instant[1]
        IN /\ exit_code = Some(1)
           /\ waited >= GraceSecs * 1000
           /\ waited <= GraceSecs * 1000 + PollMs

\* a step of the supervisor from position p
Leaves(p) == pc = p /\ pc' # p

\* C2: a child that exits with code N while the supervisor is Running, no
\* signal latched and the parent alive, makes the poll of its status exit the
\* supervisor with code N, and no cascade has been executed.
C2_ChildCodeIsExitCode ==
    [][\A n \in 0..MaxCode :
          ( /\ Leaves("poll")
            /\ Running
            /\ ~catched_termination_signal
            /\ ParentAlive
            /\ child_status = Some([code |-> Some(n)]) )
          => ( /\ pc' = "exited"
               /\ exit_code' = Some(n)
               /\ LastMsg' = MsgExited
               /\ Cascades' = 0 )]_vars

C2_Witness ==
    /\ pc = "exited"
    /\ LastMsg = MsgExited
    /\ Running /\ ~catched_termination_signal /\ ParentAlive
    /\ child_status = Some([code |-> Some(MaxCode)])
    /\ exit_code = Some(MaxCode)
    /\ Cascades = 0

\* every kill line of the log comes after a "Parent process doesn't exist
\* anymore" line
ParentLineFirst ==
    \A i \in 1..Len(log) :
        log[i].msg \in {MsgKillMain, MsgKillDesc} =>
            \E j \in 1..(i - 1) : log[j].msg = MsgParent

\* C4: while Running with no signal latched, every iteration reaches the
\* parent check; the check that finds the parent gone writes "Parent process
\* doesn't exist anymore" and calls the cascade, and when no signal line was
\* written every kill line follows that line.
C4_ParentGoneStartsCascade ==
    [][ /\ (Leaves("match") /\ Running) => pc' = "chk_signal"
        /\ (Leaves("chk_signal") /\ ~catched_termination_signal) => pc' = "chk_parent"
        /\ (Leaves("chk_parent") /\ Running /\ ~catched_termination_signal /\ ~ParentAlive)
              => ( /\ pc' = "kac_refresh"
                   /\ ret' = "poll"
                   /\ log' = Append(log, Line(MsgParent, 0)) )
        /\ (Leaves("chk_parent") /\ ParentAlive) => pc' = "poll"
        /\ (~Logged(MsgSignal))' => ParentLineFirst' ]_vars

C4_Witness ==
    /\ ~catched_termination_signal
    /\ Logged(MsgParent)
    /\ Cascades = 1
    /\ Logged(MsgKillDesc)
    /\ Terminating

\* the cascade starts within one polling interval of the latch being set
LatchDelay ==
    (latched_at # None /\ pc # "exited") => now - latched_at[1] <= PollMs

\* C5: each of SIGTERM, SIGINT and SIGQUIT, its handler installed, sets the
\* latch and does nothing else; the latch check of the Running arm that finds it set calls the
\* cascade; so a latch set while Running is acted on within one polling
\* interval unless the supervisor has exited.
C5_SignalsLatchAndCascade ==
    [][ /\ \A sig \in TermSignals :
              (SignalDelivered(sig) /\ Installed(sig))
                  => (catched_termination_signal' /\ pc' = pc)
        /\ (Leaves("chk_signal") /\ catched_termination_signal)
              => ( /\ pc' = "kac_refresh"
                   /\ ret' = "chk_parent"
                   /\ log' = Append(log, Line(MsgSignal, 0)) )
        /\ LatchDelay' ]_vars

C5_Witness ==
    /\ pc = "kac_desc"
    /\ ret = "chk_parent"
    /\ latched_at = Some(0)
    /\ now = PollMs
    /\ Cascades = 1

\* C6: with the parent alive, once one or more signals were delivered exactly
\* one cascade is executed (looked at when the supervisor has exited with the
\* child's status).
C6_ExactlyOneCascade ==
    (pc = "exited" /\ LastMsg = MsgExited /\ ParentAlive /\ catched_termination_signal)
        => Cascades = 1

\* C6 as amended: with the parent alive, at most one cascade is executed,
\* whatever the number of signals; exactly one once the latch check has found
\* the latch set, and none without a latched signal.
C6_OneCascadePerLatch ==
    ParentAlive =>
        /\ Cascades <= 1
        /\ (Logged(MsgSignal) /\ pc \notin {"kac_refresh", "kac_root"}) => Cascades = 1
        /\ Cascades = 1 => (catched_termination_signal /\ Logged(MsgSignal))

C6_Witness ==
    /\ pc = "exited"
    /\ LastMsg = MsgTimeout
    /\ ParentAlive
    /\ catched_termination_signal
    /\ Cascades = 1

\* the log position of the last "Killing main child process" line
LastCascade ==
    LET at == {i \in 1..Len(log) : log[i].msg = MsgKillMain}
    IN IF at = {} THEN 0 ELSE CHOOSE i \in at : \A j \in at : j <= i

\* the pids the last cascade sent a kill request to, the child aside
Requested ==
    {log[i].pid : i \in {j \in (LastCascade + 1)..Len(log) : log[j].msg = MsgKillDesc}}

\* C7: when a cascade completes, every live process of the child's tree has
\* received a kill request.
C7_WholeTreeKilled ==
    [][(Leaves("kac_desc") /\ pc' # "exited")
          => Reach(procs', sub_pid) \subseteq Requested']_vars

\* C7 as amended: when a cascade completes, the child and every process that
\* descends from it in the table as re-read when that cascade started have
\* been sent a kill request.
C7_SnapshotTreeKilled ==
    (pc = "kac_desc" /\ children = {}) =>
        /\ LastCascade > 0
        /\ log[LastCascade].pid = sub_pid
        /\ Requested = Reach(snapshot, sub_pid)

C7_Witness ==
    /\ pc = "kac_desc" /\ children = {}
    /\ Cardinality(Requested) = 2
    /\ \E p \in Requested : snapshot[p] # Some(sub_pid)

\* C8: for every snapshot, iteration order and root the loop's result is the
\* set of pids reachable from the root over one or more parent links.
C8_ResolveIsReachability ==
    pc = "r_done" => children = Reach(snapshot, sub_pid)

C8_Witness ==
    /\ pc = "r_done"
    /\ \E p \in children : snapshot[p] # Some(sub_pid)
    /\ \E q \in DOMAIN snapshot : q # sub_pid /\ q \notin children

\* C9: in Running and in Terminating alike, a poll that finds the child's
\* status exits the supervisor with the child's code, or with 1 when the
\* status carries no code.
C9_ExitCodeFromStatus ==
    [][(Leaves("poll") /\ child_status # None)
          => ( /\ pc' = "exited"
               /\ LastMsg' = MsgExited
               /\ exit_code' = IF child_status[1].code = None
                               THEN Some(1) ELSE child_status[1].code )]_vars

C9_Witness ==
    /\ pc = "exited"
    /\ LastMsg = MsgExited
    /\ Terminating
    /\ child_status = Some(Signaled)
    /\ exit_code = Some(1)

\* C10: the cascade ends with an error only at the kill of the root child;
\* each kill of a descendant, whatever its result, leaves the cascade running
\* on the remaining descendants, and the cascade then returns Ok with every
\* descendant attempted.
C10_OnlyRootKillFails ==
    [][ /\ (pc \in {"kac_refresh", "kac_root", "kac_desc"} /\ pc' = "exited")
              => (pc = "kac_root" /\ LastMsg' = MsgError)
        /\ (pc = "kac_desc" /\ log' # log)
              => ( /\ pc' = "kac_desc"
                   /\ \E pid \in children :
                         /\ children' = children \ {pid}
                         /\ log' = Append(log, Line(MsgKillDesc, pid)) )
        /\ Leaves("kac_desc")
              => ( /\ Requested = Reach(snapshot, sub_pid)
                   /\ pc' = ret
                   /\ killed_subprocess_instant' = Some(now)
                   /\ exit_code' = None ) ]_vars

\* a cascade has returned Ok although the kill of the first of its two
\* descendants left that process alive
C10_Witness ==
    /\ Terminating
    /\ pc = "poll"
    /\ \E i, j \in (LastCascade + 1)..Len(log) :
          /\ i < j
          /\ log[i].msg = MsgKillDesc /\ log[j].msg = MsgKillDesc
          /\ log[i].pid \in DOMAIN procs

\* C11: the supervisor starts Running; a step that leaves Running is the
\* return of a cascade; and once Terminating every later state is Terminating:
\* no step goes back to Running.
C11_NoWayBackToRunning ==
    /\ Running
    /\ [][ /\ Terminating => Terminating'
           /\ (Running /\ Terminating') => (pc = "kac_desc" /\ pc' = ret) ]_vars

\* Terminating has lasted through several iterations of the loop
C11_Witness ==
    /\ Terminating
    /\ pc = "match"
    /\ now >= killed_subprocess_instant[1] + 2 * PollMs

\* C12: the flag is false at the start; a step that changes it is the
\* delivery of a signal, sets it to true and changes nothing else of the
\* program's state; the loop's read leaves it as it is; once true it stays
\* true.
C12_FlagIsLatch ==
    /\ ~catched_termination_signal
    /\ [][ /\ catched_termination_signal => catched_termination_signal'
           /\ (catched_termination_signal' # catched_termination_signal)
                 => ( /\ \E sig \in TermSignals : SignalDelivered(sig)
                      /\ catched_termination_signal'
                      /\ UNCHANGED << pc, ret, killed_subprocess_instant, now, procs,
                                      snapshot, sub_pid, children, child_status,
                                      exit_code, log, last_pid, args >> )
           /\ Leaves("chk_signal")
                 => catched_termination_signal' = catched_termination_signal ]_vars

\* the latch was read by the loop, acted on, and is still set iterations later
C12_Witness ==
    /\ catched_termination_signal
    /\ Logged(MsgSignal)
    /\ Terminating
    /\ pc = "match"
    /\ now >= killed_subprocess_instant[1] + 2 * PollMs

\* main ended at startup: a register call or the spawn returned Err, or the
\* supervisor's own process information or parent pid was not found
StartupFailed ==
    /\ pc = "exited"
    /\ \/ LastMsg \in {MsgNoInfo, MsgNoParent}
       \/ LastMsg = MsgError /\ ~Logged(MsgKillMain)

\* C13: every startup failure (own process information or parent pid not
\* readable, a signal handler not installed, the command not spawned) makes
\* the supervisor exit with code 1.
C13_StartupFailureExitsOne == StartupFailed => exit_code = Some(1)

\* C14: a Terminating supervisor has waited no longer than the grace period
\* allows, and with main's thread kept running it exits, whether or not the
\* child ever reports a status.
C14_TerminatingExits ==
    /\ [](Terminating /\ pc # "exited"
            => elapsed(killed_subprocess_instant[1]) <= (GraceSecs + 1) * 1000)
    /\ (Terminating ~> pc = "exited")

\* the child never reported a status and the supervisor gave up
C14_Witness ==
    /\ pc = "exited"
    /\ LastMsg = MsgTimeout
    /\ child_status = None
    /\ SubPid \in DOMAIN procs

\* C15: started without a command argument, main's first step writes the
\* usage message and exits with code 1; no handler is installed (the flag is
\* never set), no child is spawned and no position past the argument check
\* is reached.
C15_NoArgsIsUsageError ==
    [][ args < 2 =>
          /\ (Leaves("args") /\ ~(\E sig \in TermSignals : SignalDelivered(sig)))
                => ( /\ pc' = "exited"
                     /\ exit_code' = Some(1)
                     /\ log' = << Line(MsgUsage, 0) >> )
          /\ pc' \in {"args", "exited"}
          /\ \A sig \in TermSignals : pc' # "exited" => ~Installed(sig)'
          /\ ~catched_termination_signal'
          /\ SubPid \notin DOMAIN procs'
          /\ child_status' = None ]_vars

C15_Witness ==
    /\ args = 1
    /\ pc = "exited"
    /\ exit_code = Some(1)
    /\ log = << Line(MsgUsage, 0) >>
    /\ procs = BootTable

\* the lines of the last cascade: its trigger line, the root kill line, then
\* descendant kill lines only
CascadeLinesInOrder ==
    /\ LastCascade > 1
    /\ log[LastCascade - 1].msg \in {MsgSignal, MsgParent}
    /\ \A i \in (LastCascade + 1)..Len(log) : log[i].msg = MsgKillDesc

\* C16: in the iteration that runs a cascade the descendants are resolved
\* from the snapshot first, then the root child is sent its kill, then the
\* descendants theirs, and the child's status is polled only after the
\* cascade has returned: never between the root kill and the descendant kills.
C16_CascadeBeforePoll ==
    [][ /\ Leaves("kac_refresh")
              => ( /\ pc' = "kac_root"
                   /\ children' = Reach(snapshot', sub_pid)
                   /\ log' = log /\ procs' = procs )
        /\ (Leaves("kac_root") /\ pc' # "exited")
              => ( /\ pc' = "kac_desc"
                   /\ log' = Append(log, Line(MsgKillMain, sub_pid))
                   /\ children' = children )
        /\ (pc = "kac_desc" /\ children # {}) => pc' = "kac_desc"
        /\ Leaves("kac_desc")
              => ( /\ pc' \in {"chk_parent", "poll"}
                   /\ CascadeLinesInOrder
                   /\ Requested = Reach(snapshot, sub_pid) )
        /\ (log' # log /\ LastMsg' = MsgKillDesc) => (pc = "kac_desc" /\ LastCascade > 0)
        /\ (log' # log /\ LastMsg' = MsgExited) => pc = "poll"
        /\ pc = "poll" => (children = {} /\ snapshot = NoSnapshot /\ ret = "none") ]_vars

\* the poll that follows, in the same iteration, a cascade with two descendants
C16_Witness ==
    /\ pc = "exited"
    /\ LastMsg = MsgExited
    /\ Len(log) > 4
    /\ log[Len(log) - 1].msg = MsgKillDesc
    /\ log[Len(log) - 2].msg = MsgKillDesc
    /\ log[Len(log) - 3].msg = MsgKillMain
    /\ now = killed_subprocess_instant[1]

\* C17: the timeout exit is taken only when the child has not terminated: a
\* supervisor that has exited by timeout has a child whose status a poll
\* would not have found.
C17_TimeoutOnlyIfChildRuns ==
    (pc = "exited" /\ LastMsg = MsgTimeout) => child_status = None

\* C18: once killed_subprocess_instant holds a timestamp it keeps it: the
\* statement that writes it runs once in an execution, never again while
\* Terminating.  (Instant::now() is finer than the clock followed here, so a
\* second run of the statement counts as a write whatever it stores.)
C18_InstantWrittenOnce ==
    [][Terminating => ( /\ killed_subprocess_instant' = killed_subprocess_instant
                        /\ ~Return )]_vars

\* C19: a cascade whose kill of the root child fails sends no kill to any
\* descendant and does not write killed_subprocess_instant (a Running
\* supervisor stays Running), and main ends there with the error, exit code
\* 1, without polling the child again.
C19_RootKillFailureIsFatal ==
    [][(Leaves("kac_root") /\ pc' = "exited")
          => ( /\ log' = log \o << Line(MsgKillMain, sub_pid), Line(MsgError, 0) >>
               /\ procs' = procs
               /\ child_status' = child_status
               /\ killed_subprocess_instant' = killed_subprocess_instant
               /\ Running => Running'
               /\ exit_code' = Some(1) )]_vars

\* the root kill failed with two descendants resolved: both are alive and
\* unrequested, and the supervisor is gone while still Running
C19_Witness ==
    /\ pc = "exited"
    /\ LastMsg = MsgError
    /\ Logged(MsgKillMain)
    /\ ~Logged(MsgKillDesc)
    /\ Running
    /\ exit_code = Some(1)
    /\ Cardinality(Reach(procs, sub_pid)) = 2

\* the command has been spawned
ChildExists == Logged(MsgSpawned)

\* C20: the handlers of all three signals are installed before the command
\* is spawned: whenever the child exists and main runs, a delivered SIGTERM,
\* SIGINT or SIGQUIT sets the latch and leaves main running, and the latch
\* check that then finds the latch set calls the cascade.
C20_HandlersBeforeSpawn ==
    [][ /\ (ChildExists' /\ pc' # "exited") => \A sig \in TermSignals : Installed(sig)'
        /\ \A sig \in TermSignals :
              (SignalDelivered(sig) /\ ChildExists)
                  => ( /\ catched_termination_signal'
                       /\ pc' = pc
                       /\ exit_code' = exit_code
                       /\ procs' = procs )
        /\ (Leaves("chk_signal") /\ catched_termination_signal)
              => (pc' = "kac_refresh" /\ LastMsg' = MsgSignal) ]_vars

\* a signal latched no later than the first latch check, the child being
\* there, was acted on in the first iteration
C20_Witness ==
    /\ ChildExists
    /\ pc = "poll"
    /\ now = 0
    /\ catched_termination_signal
    /\ Logged(MsgSignal)
    /\ Cascades = 1
    /\ ParentAlive

====
